---- MODULE Spec2Model ----
(***************************************************************************)
(* Pairing authentication of rust-adb: the SPAKE2 key exchange behind      *)
(* PairingAuthCtxBuilder, the HKDF key derivation and the AES-128-GCM      *)
(* cipher with sequence-derived nonces (rust/rust-adb-pairing-auth), and   *)
(* the single-object PairingAuthCtx of rust-adb-pairing-auth.              *)
(*                                                                         *)
(* The external primitives (spake2, hkdf, aes-gcm crates) are modelled     *)
(* symbolically by their contracts: a key is the term it was derived       *)
(* from, a ciphertext byte is a term over key, nonce, position and value,  *)
(* and a tag byte is a term over the key, the nonce and the body it        *)
(* covers.  Equality of terms stands for equality of bytes (no collisions, *)
(* no forgeries).                                                          *)
(***************************************************************************)
EXTENDS Integers, Sequences, FiniteSets, TLC

VARIABLES
    builder,  \* [Party -> PairingAuthCtxBuilder]: st, state, our_msg
    ctx,      \* [Party -> PairingAuthCtx]: st, cipher (key, enc_sequence, dec_sequence)
    mctx,     \* [Party -> single-object PairingAuthCtx]: st, state, our_msg, cipher
    sent,     \* [Party -> Seq]: what each party's successful encrypts handed to the transport
    outMsg,   \* [Party -> the exchange message the party copied from msg() for its peer]
    pswd,     \* [Party -> password passed to new] (history)
    decLog,   \* [Party -> Seq of nonces used by that party's successful decrypts] (history)
    base,     \* [Party -> successful encrypts / decrypts made before the first state]
    got,      \* [Party -> numbers of the peer's ciphertexts Deliver handed it and it decrypted]
    rcvd,     \* [Party -> how many ciphertexts it has taken off its FIFO channel]
    desync,   \* [Party -> Deliver handed it a later ciphertext of its peer before an earlier one]
    last      \* the last call and what it returned (history)

vars == <<builder, ctx, mctx, sent, outMsg, pswd, decLog, base, got, desync, rcvd, last>>

(***************************************************************************)
(* Bounds of the exploration                                               *)
(***************************************************************************)
\* successful encrypt calls explored in one session, both parties together
MaxSeq == 2
\* width of a sequence counter, scaled down from the u64 of the code
SeqBits == 16

(***************************************************************************)
(* Program constants                                                       *)
(***************************************************************************)
HKDF_KEY_LENGTH == 16
INFO == "adb pairing_auth aes-128-gcm key"
CLIENT_NAME == "adb pair client"
SERVER_NAME == "adb pair server"
\* bytes of the nonce array, and of the counter copied into its front
NonceLen == 12
SeqBytes == 8
\* bytes of the GCM tag appended by Aes128Gcm
TagLen == 16
\* bytes of a SPAKE2 message: side byte plus group element
Spake2MsgLen == 33

RECURSIVE Pow2(_)
Pow2(n) == IF n = 0 THEN 1 ELSE 2 * Pow2(n - 1)

\* largest value of a sequence counter
SeqMax == Pow2(SeqBits) - 1

Party == {"client", "server"}
Peer(p) == IF p = "client" THEN "server" ELSE "client"

\* passwords handed to new: the empty one and two that differ in one byte;
\* the server's may equal the client's or differ from it
PwA == <<1, 2, 3>>
PwB == <<1, 2, 4>>
Passwords(p) == IF p = "client" THEN {<<>>, PwA} ELSE {<<>>, PwA, PwB}

\* plaintexts handed to encrypt
Msgs == {<<>>, <<42, 255>>}

\* the random scalars start_a / start_b may draw
Scalars == {5}

(***************************************************************************)
(* spake2 crate: start_a / start_b / finish                                *)
(***************************************************************************)
\* The outbound message: the side byte and the blinded element x*G + w*M.
Spake2Msg(side, pw, x) ==
    [len |-> Spake2MsgLen, side |-> side, elem |-> [x |-> x, w |-> pw]]

Spake2Start(side, pw, idA, idB, x) ==
    [state |-> [side |-> side, pw |-> pw, idA |-> idA, idB |-> idB, x |-> x],
     msg   |-> Spake2Msg(side, pw, x)]

\* Messages no peer produced: empty, and one byte short.
EmptyMsg == [len |-> 0, side |-> "-", elem |-> [x |-> 0, w |-> <<>>]]
ShortMsg(m) == [m EXCEPT !.len = m.len - 1]

\* The shared group element: x*(their element unblinded by our password).
\* With equal passwords the blinding cancels and both sides hold x*y*G.
Spake2Shared(state, their) ==
    [scalars |-> {state.x, their.elem.x},
     resid   |-> IF their.elem.w = state.pw THEN <<>>
                 ELSE <<state.side, state.pw, their.elem.w>>]

\* finish: the transcript hash over password, identities, both messages and
\* the shared element; 32 bytes of key material.
\* finish that fails when the peer's element was blinded with another password
Spake2Finish_ChecksPassword(state, their) ==
    IF their.len # Spake2MsgLen THEN [ok |-> FALSE, err |-> "WrongLength"]
    ELSE IF their.side = state.side THEN [ok |-> FALSE, err |-> "BadSide"]
    ELSE IF their.elem.w # state.pw THEN [ok |-> FALSE, err |-> "WrongPassword"]
    ELSE [ok |-> TRUE,
          km |-> [len |-> 32,
                  pw  |-> state.pw, idA |-> state.idA, idB |-> state.idB,
                  X   |-> IF state.side = "A" THEN Spake2Msg("A", state.pw, state.x).elem
                          ELSE their.elem,
                  Y   |-> IF state.side = "B" THEN Spake2Msg("B", state.pw, state.x).elem
                          ELSE their.elem,
                  K   |-> Spake2Shared(state, their)]]

Spake2Finish(state, their) ==
    IF their.len # Spake2MsgLen THEN [ok |-> FALSE, err |-> "WrongLength"]
    ELSE IF their.side = state.side THEN [ok |-> FALSE, err |-> "BadSide"]
    ELSE [ok |-> TRUE,
          km |-> [len |-> 32,
                  pw  |-> state.pw, idA |-> state.idA, idB |-> state.idB,
                  X   |-> IF state.side = "A" THEN Spake2Msg("A", state.pw, state.x).elem
                          ELSE their.elem,
                  Y   |-> IF state.side = "B" THEN Spake2Msg("B", state.pw, state.x).elem
                          ELSE their.elem,
                  K   |-> Spake2Shared(state, their)]]

(***************************************************************************)
(* hkdf crate: Hkdf::<Sha256>::new(None, ikm).expand(info, okm)            *)
(***************************************************************************)
HkdfExpand(ikm, info, len) ==
    IF len > 255 * 32 THEN [ok |-> FALSE]
    ELSE [ok |-> TRUE, okm |-> [ikm |-> ikm, info |-> info, len |-> len]]

(***************************************************************************)
(* aes-gcm crate: Aes128Gcm encrypt / decrypt, no associated data          *)
(***************************************************************************)
\* A ciphertext is the byte sequence `bytes`; each byte is a term read under
\* the key and nonce it was produced with, and a tag byte is moreover a term
\* over the body the tag was computed on (`over`):
\*   <<"c", i, v>>  keystream byte i of (key, nonce) xor v
\*   <<"t", j, d>>  byte j of the tag of (key, nonce, over), changed by d
\*   <<"r", 0, v>>  a byte that no encryption produced
CtrByte(i, v) == <<"c", i, v>>

GcmTag == [j \in 1..TagLen |-> <<"t", j, 0>>]

\* encryption that appends a 12-byte tag
AeadEncrypt_ShortTag(key, nonce, pt) ==
    LET body == [i \in 1..Len(pt) |-> CtrByte(i, pt[i])]
    IN  [ok |-> TRUE,
         out |-> [key |-> key, nonce |-> nonce, over |-> body,
                  bytes |-> body \o SubSeq(GcmTag, 1, 12)]]

AeadEncrypt(key, nonce, pt) ==
    LET body == [i \in 1..Len(pt) |-> CtrByte(i, pt[i])]
    IN  [ok |-> TRUE,
         out |-> [key |-> key, nonce |-> nonce, over |-> body, bytes |-> body \o GcmTag]]

\* The keystream removed from one body byte; 256 stands for a byte the
\* receiver cannot predict.
CtrUnmask(i, b) == IF b[1] = "c" /\ b[2] = i THEN b[3] ELSE 256

\* decryption that removes the keystream without verifying the tag
AeadDecrypt_NoTagCheck(key, nonce, data) ==
    IF Len(data.bytes) < TagLen \/ data.key # key \/ data.nonce # nonce THEN [ok |-> FALSE]
    ELSE LET n    == Len(data.bytes) - TagLen
             body == SubSeq(data.bytes, 1, n)
         IN  [ok |-> TRUE, out |-> [i \in 1..n |-> CtrUnmask(i, body[i])]]

\* The tag is recomputed over the received body under the receiver's key and
\* nonce and compared with the received tag bytes.
AeadDecrypt_AnyNonce(key, nonce, data) ==
    IF Len(data.bytes) < TagLen THEN [ok |-> FALSE]
    ELSE LET n    == Len(data.bytes) - TagLen
             body == SubSeq(data.bytes, 1, n)
             tag  == SubSeq(data.bytes, n + 1, Len(data.bytes))
         IN  IF tag # GcmTag \/ data.over # body \/ data.key # key
             THEN [ok |-> FALSE]
             ELSE [ok |-> TRUE, out |-> [i \in 1..n |-> CtrUnmask(i, body[i])]]

AeadDecrypt(key, nonce, data) ==
    IF Len(data.bytes) < TagLen THEN [ok |-> FALSE]
    ELSE LET n    == Len(data.bytes) - TagLen
             body == SubSeq(data.bytes, 1, n)
             tag  == SubSeq(data.bytes, n + 1, Len(data.bytes))
         IN  IF \/ tag # GcmTag
                \/ data.over # body
                \/ data.key # key
                \/ data.nonce # nonce
             THEN [ok |-> FALSE]
             ELSE [ok |-> TRUE, out |-> [i \in 1..n |-> CtrUnmask(i, body[i])]]

(***************************************************************************)
(* Aes128GcmCipher                                                         *)
(***************************************************************************)
RECURSIVE to_be_bytes(_, _)
\* the bytes of v most significant first
to_be_bytes(v, n) ==
    IF n = 0 THEN <<>> ELSE to_be_bytes(v \div 256, n - 1) \o <<v % 256>>

RECURSIVE to_le_bytes(_, _)
\* u64::to_le_bytes: n bytes of v, least significant first
to_le_bytes(v, n) ==
    IF n = 0 THEN <<>> ELSE <<v % 256>> \o to_le_bytes(v \div 256, n - 1)

\* nonce_bytes = [0u8; 12]; nonce_bytes[..8].copy_from_slice(&seq.to_le_bytes())
NonceOf(seq) ==
    LET le == to_le_bytes(seq, SeqBytes)
    IN  [i \in 1..NonceLen |-> IF i <= SeqBytes THEN le[i] ELSE 0]

\* a counter that is never advanced
AddOne_Stuck(seq) == {[panic |-> FALSE, val |-> seq]}

\* a counter advanced by two
AddOne_Two(seq) == {[panic |-> FALSE, val |-> seq + 2]}

\* `seq += 1` on the counter: below the maximum it adds one; at the maximum
\* the build decides between a panic (overflow checks on) and a wrap to 0.
AddOne(seq) ==
    IF seq < SeqMax THEN {[panic |-> FALSE, val |-> seq + 1]}
    ELSE {[panic |-> TRUE, val |-> seq], [panic |-> FALSE, val |-> 0]}

NoCipher == [none |-> TRUE]

\* a cipher keyed without the key material
Aes128GcmCipher_new_FixedKey(key_material) ==
    IF key_material.len = 0 THEN [ok |-> FALSE, err |-> "KeyMaterialEmpty", hkdf |-> FALSE]
    ELSE [ok |-> TRUE, hkdf |-> TRUE,
          cipher |-> [key |-> HkdfExpand(<<>>, INFO, HKDF_KEY_LENGTH).okm,
                      enc_sequence |-> 0, dec_sequence |-> 0]]

\* new that derives the key before it looks at the key material
Aes128GcmCipher_new_DeriveFirst(key_material) ==
    LET okm == HkdfExpand(key_material, INFO, HKDF_KEY_LENGTH)
    IN  IF ~okm.ok THEN [ok |-> FALSE, err |-> "HkdfInvalidLength", hkdf |-> TRUE]
        ELSE IF key_material.len = 0
        THEN [ok |-> FALSE, err |-> "KeyMaterialEmpty", hkdf |-> TRUE]
        ELSE [ok |-> TRUE, hkdf |-> TRUE,
              cipher |-> [key |-> okm.okm, enc_sequence |-> 0, dec_sequence |-> 0]]

\* Aes128GcmCipher::new; hkdf tells whether the key derivation was invoked
Aes128GcmCipher_new(key_material) ==
    IF key_material.len = 0 THEN [ok |-> FALSE, err |-> "KeyMaterialEmpty", hkdf |-> FALSE]
    ELSE LET okm == HkdfExpand(key_material, INFO, HKDF_KEY_LENGTH)
         IN  IF ~okm.ok THEN [ok |-> FALSE, err |-> "HkdfInvalidLength", hkdf |-> TRUE]
             ELSE [ok |-> TRUE, hkdf |-> TRUE,
                   cipher |-> [key |-> okm.okm, enc_sequence |-> 0, dec_sequence |-> 0]]

\* encrypt that advances both counters
Cipher_encrypt_BothCounters(c, data) ==
    LET nonce == NonceOf(c.enc_sequence)
        r     == AeadEncrypt(c.key, nonce, data)
    IN  {[res |-> "Ok", out |-> r.out, nonce |-> nonce,
          cipher |-> [c EXCEPT !.enc_sequence = @ + 1, !.dec_sequence = @ + 1]]}

\* The outcomes of encrypt: the result, the bytes returned, the nonce used and
\* the cipher afterwards.
\* encrypt that may salt its nonce with a byte of its own choosing
Cipher_encrypt_SaltedNonce(c, data) ==
    {[res |-> "Ok", out |-> AeadEncrypt(c.key, nonce, data).out, nonce |-> nonce,
      cipher |-> [c EXCEPT !.enc_sequence = @ + 1]]
       : nonce \in {NonceOf(c.enc_sequence), [NonceOf(c.enc_sequence) EXCEPT ![NonceLen] = 1]}}

\* encrypt that builds its nonce from the decryption counter
Cipher_encrypt_NonceFromDec(c, data) ==
    LET nonce == NonceOf(c.dec_sequence)
    IN  {[res |-> "Ok", out |-> AeadEncrypt(c.key, nonce, data).out, nonce |-> nonce,
          cipher |-> [c EXCEPT !.enc_sequence = @ + 1]]}

Cipher_encrypt(c, data) ==
    LET nonce == NonceOf(c.enc_sequence)
        r     == AeadEncrypt(c.key, nonce, data)
    IN  IF ~r.ok
        THEN {[res |-> "EncryptionFailed", out |-> <<>>, nonce |-> nonce, cipher |-> c]}
        ELSE {IF a.panic THEN [res |-> "Panic", out |-> <<>>, nonce |-> nonce, cipher |-> c]
              ELSE [res |-> "Ok", out |-> r.out, nonce |-> nonce,
                    cipher |-> [c EXCEPT !.enc_sequence = a.val]]
              : a \in AddOne(c.enc_sequence)}

\* decrypt that builds its nonce from the encryption counter
Cipher_decrypt_EncNonce(c, data) ==
    LET nonce == NonceOf(c.enc_sequence)
        r     == AeadDecrypt(c.key, nonce, data)
    IN  IF ~r.ok
        THEN {[res |-> "DecryptionFailed", out |-> <<>>, nonce |-> nonce, cipher |-> c]}
        ELSE {[res |-> "Ok", out |-> r.out, nonce |-> nonce,
               cipher |-> [c EXCEPT !.dec_sequence = @ + 1]]}

\* decrypt that advances its counter before the tag is verified
Cipher_decrypt_CountsFailures(c, data) ==
    LET nonce == NonceOf(c.dec_sequence)
        r     == AeadDecrypt(c.key, nonce, data)
        adv   == [c EXCEPT !.dec_sequence = @ + 1]
    IN  IF ~r.ok
        THEN {[res |-> "DecryptionFailed", out |-> <<>>, nonce |-> nonce, cipher |-> adv]}
        ELSE {[res |-> "Ok", out |-> r.out, nonce |-> nonce, cipher |-> adv]}

\* The outcomes of decrypt, as for encrypt.
\* decrypt that tells the caller why it refused
Cipher_decrypt_NamesCause(c, data) ==
    LET nonce == NonceOf(c.dec_sequence)
        r     == AeadDecrypt(c.key, nonce, data)
    IN  IF Len(data.bytes) < TagLen
        THEN {[res |-> "InvalidLength", out |-> <<>>, nonce |-> nonce, cipher |-> c]}
        ELSE IF data.nonce # nonce
        THEN {[res |-> "SequenceMismatch", out |-> <<>>, nonce |-> nonce, cipher |-> c]}
        ELSE IF ~r.ok
        THEN {[res |-> "DecryptionFailed", out |-> <<>>, nonce |-> nonce, cipher |-> c]}
        ELSE {IF a.panic THEN [res |-> "Panic", out |-> <<>>, nonce |-> nonce, cipher |-> c]
              ELSE [res |-> "Ok", out |-> r.out, nonce |-> nonce,
                    cipher |-> [c EXCEPT !.dec_sequence = a.val]]
              : a \in AddOne(c.dec_sequence)}

\* decrypt that tries the next nonce when the current one fails
Cipher_decrypt_Retries(c, data) ==
    LET nonce == NonceOf(c.dec_sequence)
        r     == AeadDecrypt(c.key, nonce, data)
        next  == NonceOf(c.dec_sequence + 1)
        r1    == AeadDecrypt(c.key, next, data)
    IN  IF r.ok
        THEN {[res |-> "Ok", out |-> r.out, nonce |-> nonce,
               cipher |-> [c EXCEPT !.dec_sequence = @ + 1]]}
        ELSE IF r1.ok
        THEN {[res |-> "Ok", out |-> r1.out, nonce |-> next,
               cipher |-> [c EXCEPT !.dec_sequence = @ + 2]]}
        ELSE {[res |-> "DecryptionFailed", out |-> <<>>, nonce |-> nonce, cipher |-> c]}

\* decrypt that starts over from position 0 after a ciphertext it refused
Cipher_decrypt_ResetsOnFailure(c, data) ==
    LET nonce == NonceOf(c.dec_sequence)
        r     == AeadDecrypt(c.key, nonce, data)
    IN  IF ~r.ok
        THEN {[res |-> "DecryptionFailed", out |-> <<>>, nonce |-> nonce,
               cipher |-> [c EXCEPT !.dec_sequence = 0]]}
        ELSE {[res |-> "Ok", out |-> r.out, nonce |-> nonce,
               cipher |-> [c EXCEPT !.dec_sequence = @ + 1]]}

Cipher_decrypt(c, data) ==
    LET nonce == NonceOf(c.dec_sequence)
        r     == AeadDecrypt(c.key, nonce, data)
    IN  IF ~r.ok
        THEN {[res |-> "DecryptionFailed", out |-> <<>>, nonce |-> nonce, cipher |-> c]}
        ELSE {IF a.panic THEN [res |-> "Panic", out |-> <<>>, nonce |-> nonce, cipher |-> c]
              ELSE [res |-> "Ok", out |-> r.out, nonce |-> nonce,
                    cipher |-> [c EXCEPT !.dec_sequence = a.val]]
              : a \in AddOne(c.dec_sequence)}

(***************************************************************************)
(* PairingAuthCtxBuilder / PairingAuthCtx                                  *)
(***************************************************************************)
NoBuilder == [st |-> "none"]
ConsumedBuilder == [st |-> "consumed"]
NoCtx == [st |-> "none", cipher |-> NoCipher]
\* the single-object context: Option state (None = NoState), Option cipher
NoState == [none |-> TRUE]
NoMctx == [st |-> "none", state |-> NoState, our_msg |-> <<>>, cipher |-> NoCipher]

Side(role) == IF role = "client" THEN "A" ELSE "B"

\* new that starts the exchange whatever the password
Builder_new_NoCheck(pw, role, x) ==
    LET s == Spake2Start(Side(role), pw, CLIENT_NAME, SERVER_NAME, x)
    IN  [ok |-> TRUE, builder |-> [st |-> "created", state |-> s.state, our_msg |-> s.msg]]

\* new that leaves the outbound message empty until the peer has spoken
Builder_new_LazyMsg(pw, role, x) ==
    IF Len(pw) = 0 THEN [ok |-> FALSE, err |-> "PasswordEmpty"]
    ELSE LET s == Spake2Start(Side(role), pw, CLIENT_NAME, SERVER_NAME, x)
         IN  [ok |-> TRUE,
              builder |-> [st |-> "created", state |-> s.state, our_msg |-> EmptyMsg]]

\* PairingAuthCtxBuilder::new
\* new that names the caller's own identity first
Builder_new_OwnIdFirst(pw, role, x) ==
    IF Len(pw) = 0 THEN [ok |-> FALSE, err |-> "PasswordEmpty"]
    ELSE LET s == IF role = "client"
                  THEN Spake2Start("A", pw, CLIENT_NAME, SERVER_NAME, x)
                  ELSE Spake2Start("B", pw, SERVER_NAME, CLIENT_NAME, x)
         IN  [ok |-> TRUE,
              builder |-> [st |-> "created", state |-> s.state, our_msg |-> s.msg]]

Builder_new(pw, role, x) ==
    IF Len(pw) = 0 THEN [ok |-> FALSE, err |-> "PasswordEmpty"]
    ELSE LET s == Spake2Start(Side(role), pw, CLIENT_NAME, SERVER_NAME, x)
         IN  [ok |-> TRUE,
              builder |-> [st |-> "created", state |-> s.state, our_msg |-> s.msg]]

\* PairingAuthCtxBuilder::init_cipher
Builder_init_cipher(b, their_msg) ==
    LET km == Spake2Finish(b.state, their_msg)
    IN  IF ~km.ok THEN [ok |-> FALSE, err |-> "Spake2Error"]
        ELSE LET c == Aes128GcmCipher_new(km.km)
             IN  IF ~c.ok THEN [ok |-> FALSE, err |-> c.err]
                 ELSE [ok |-> TRUE, ctx |-> [st |-> "ready", cipher |-> c.cipher]]

(***************************************************************************)
(* The single-object design (rust-adb-pairing-auth): one PairingAuthCtx    *)
(* that holds the exchange state until init_cipher takes it, and the       *)
(* cipher from then on.  An error of the cipher is reported wrapped in     *)
(* CipherError; the model names it by the wrapped error.                   *)
(***************************************************************************)
\* The cipher of this crate (its module aes_128_gcm), by its contract:
\* new refuses empty key material before any derivation, else derives the
\* 16-byte key with the fixed info string and starts both counters at 0.
MCipher_new(key_material) ==
    IF key_material.len = 0 THEN [ok |-> FALSE, err |-> "KeyMaterialEmpty", hkdf |-> FALSE]
    ELSE LET okm == HkdfExpand(key_material, INFO, HKDF_KEY_LENGTH)
         IN  IF ~okm.ok THEN [ok |-> FALSE, err |-> "HkdfInvalidLength", hkdf |-> TRUE]
             ELSE [ok |-> TRUE, hkdf |-> TRUE,
                   cipher |-> [key |-> okm.okm, enc_sequence |-> 0, dec_sequence |-> 0]]

\* encrypt: the nonce is enc_sequence in little-endian order, zero-padded;
\* enc_sequence advances by 1 on success only
MCipher_encrypt(c, data) ==
    LET nonce == NonceOf(c.enc_sequence)
        r     == AeadEncrypt(c.key, nonce, data)
    IN  IF ~r.ok
        THEN {[res |-> "EncryptionFailed", out |-> <<>>, nonce |-> nonce, cipher |-> c]}
        ELSE {IF a.panic THEN [res |-> "Panic", out |-> <<>>, nonce |-> nonce, cipher |-> c]
              ELSE [res |-> "Ok", out |-> r.out, nonce |-> nonce,
                    cipher |-> [c EXCEPT !.enc_sequence = a.val]]
              : a \in AddOne(c.enc_sequence)}

\* decrypt: the nonce from dec_sequence in the same way; a failed
\* verification returns DecryptionFailed and does not advance dec_sequence
MCipher_decrypt(c, data) ==
    LET nonce == NonceOf(c.dec_sequence)
        r     == AeadDecrypt(c.key, nonce, data)
    IN  IF ~r.ok
        THEN {[res |-> "DecryptionFailed", out |-> <<>>, nonce |-> nonce, cipher |-> c]}
        ELSE {IF a.panic THEN [res |-> "Panic", out |-> <<>>, nonce |-> nonce, cipher |-> c]
              ELSE [res |-> "Ok", out |-> r.out, nonce |-> nonce,
                    cipher |-> [c EXCEPT !.dec_sequence = a.val]]
              : a \in AddOne(c.dec_sequence)}

\* new that leaves the check of the password to the exchange
Mctx_new_NoCheck(pw, role, x) ==
    LET s == Spake2Start(Side(role), pw, CLIENT_NAME, SERVER_NAME, x)
    IN  [ok |-> TRUE,
         ctx |-> [st |-> "live", state |-> s.state, our_msg |-> s.msg,
                  cipher |-> NoCipher]]

\* PairingAuthCtx::new
Mctx_new(pw, role, x) ==
    IF Len(pw) = 0 THEN [ok |-> FALSE, err |-> "PasswordEmpty"]
    ELSE LET s == Spake2Start(Side(role), pw, CLIENT_NAME, SERVER_NAME, x)
         IN  [ok |-> TRUE,
              ctx |-> [st |-> "live", state |-> s.state, our_msg |-> s.msg,
                       cipher |-> NoCipher]]

\* init_cipher whose refusal also throws the cipher away
Mctx_init_cipher_DropsCipher(c, their_msg) ==
    IF c.state = NoState
    THEN [res |-> "AlreadyInitialized", ctx |-> [c EXCEPT !.cipher = NoCipher]]
    ELSE LET taken == [c EXCEPT !.state = NoState]
             km    == Spake2Finish(c.state, their_msg)
         IN  IF ~km.ok THEN [res |-> "Spake2Error", ctx |-> taken]
             ELSE LET n == MCipher_new(km.km)
                  IN  IF ~n.ok THEN [res |-> n.err, ctx |-> taken]
                      ELSE [res |-> "Ok", ctx |-> [taken EXCEPT !.cipher = n.cipher]]

\* init_cipher that leaves the exchange state in its slot
Mctx_init_cipher_KeepsState(c, their_msg) ==
    IF c.state = NoState THEN [res |-> "AlreadyInitialized", ctx |-> c]
    ELSE LET km == Spake2Finish(c.state, their_msg)
         IN  IF ~km.ok THEN [res |-> "Spake2Error", ctx |-> c]
             ELSE LET n == MCipher_new(km.km)
                  IN  IF ~n.ok THEN [res |-> n.err, ctx |-> c]
                      ELSE [res |-> "Ok", ctx |-> [c EXCEPT !.cipher = n.cipher]]

\* init_cipher that finishes the exchange on a borrowed state and empties the
\* slot only once the cipher is built
Mctx_init_cipher_FinishFirst(c, their_msg) ==
    IF c.state = NoState THEN [res |-> "AlreadyInitialized", ctx |-> c]
    ELSE LET km == Spake2Finish(c.state, their_msg)
         IN  IF ~km.ok THEN [res |-> "Spake2Error", ctx |-> c]
             ELSE LET n == MCipher_new(km.km)
                  IN  IF ~n.ok THEN [res |-> n.err, ctx |-> c]
                      ELSE [res |-> "Ok",
                            ctx |-> [c EXCEPT !.state = NoState, !.cipher = n.cipher]]

\* PairingAuthCtx::init_cipher: the state is taken out of its slot first
Mctx_init_cipher(c, their_msg) ==
    IF c.state = NoState THEN [res |-> "AlreadyInitialized", ctx |-> c]
    ELSE LET taken == [c EXCEPT !.state = NoState]
             km    == Spake2Finish(c.state, their_msg)
         IN  IF ~km.ok THEN [res |-> "Spake2Error", ctx |-> taken]
             ELSE LET n == MCipher_new(km.km)
                  IN  IF ~n.ok THEN [res |-> n.err, ctx |-> taken]
                      ELSE [res |-> "Ok", ctx |-> [taken EXCEPT !.cipher = n.cipher]]

\* encrypt that works without a cipher, under a key of no key material
Mctx_encrypt_NoGuard(c, data) ==
    LET k == IF c.cipher = NoCipher
             THEN Aes128GcmCipher_new_FixedKey([len |-> 1]).cipher ELSE c.cipher
    IN  {[res |-> o.res, out |-> o.out, nonce |-> o.nonce,
          ctx |-> [c EXCEPT !.cipher = o.cipher]] : o \in MCipher_encrypt(k, data)}

\* PairingAuthCtx::encrypt
Mctx_encrypt(c, data) ==
    IF c.cipher = NoCipher
    THEN {[res |-> "CipherNotInitialized", out |-> <<>>, nonce |-> <<>>, ctx |-> c]}
    ELSE {[res |-> o.res, out |-> o.out, nonce |-> o.nonce,
           ctx |-> [c EXCEPT !.cipher = o.cipher]] : o \in MCipher_encrypt(c.cipher, data)}

\* PairingAuthCtx::decrypt
Mctx_decrypt(c, data) ==
    IF c.cipher = NoCipher
    THEN {[res |-> "CipherNotInitialized", out |-> <<>>, nonce |-> <<>>, ctx |-> c]}
    ELSE {[res |-> o.res, out |-> o.out, nonce |-> o.nonce,
           ctx |-> [c EXCEPT !.cipher = o.cipher]] : o \in MCipher_decrypt(c.cipher, data)}

(***************************************************************************)
(* The transport: what can be handed to decrypt                            *)
(***************************************************************************)
\* what is added to a byte to make it another byte
FlipMasks == {1}
\* the bytes appended: 0xaa, or 0 for a copy of the last byte
AppendBytes == {0, 170}
\* the longest ciphertext: the longest plaintext plus the tag
MaxCtLen == 2 + TagLen

FlipAt(ct, i, d) == [ct EXCEPT !.bytes[i][3] = (@ + d) % 256]
RemoveAt(ct, i) ==
    [ct EXCEPT !.bytes = SubSeq(@, 1, i - 1) \o SubSeq(@, i + 1, Len(@))]
\* a byte that no encryption produced
RawByte(v) == <<"r", 0, v>>

\* The bytes handed to decrypt: the ciphertext as sent, or with byte i
\* changed by d, or with one byte appended (d, or a copy of its last byte),
\* or with byte i removed.
Tamper(ct, kind, i, d) ==
    CASE kind = "intact" -> ct
      [] kind = "flip"   -> FlipAt(ct, i, d)
      [] kind = "append" -> [ct EXCEPT !.bytes =
                                Append(@, IF d = 0 THEN ct.bytes[Len(ct.bytes)] ELSE RawByte(d))]
      [] kind = "remove" -> RemoveAt(ct, i)

(***************************************************************************)
(* Actions                                                                 *)
(***************************************************************************)
\* A call: the operation, the party, the argument (password, peer message,
\* plaintext; a ciphertext is named by src, idx, kind), the result, the bytes
\* returned and the object before the call.
Call(op, p, arg, res, out, pre, src, idx, kind) ==
    [op |-> op, p |-> p, arg |-> arg, res |-> res, out |-> out, pre |-> pre,
     src |-> src, idx |-> idx, kind |-> kind]

NoMsg == [len |-> 0, side |-> "none", elem |-> [x |-> 0, w |-> <<>>]]
NoCall == Call("none", "client", <<>>, "Ok", <<>>, NoCipher, "client", 0, "intact")

Init ==
    /\ builder = [p \in Party |-> NoBuilder]
    /\ ctx = [p \in Party |-> NoCtx]
    /\ sent = [p \in Party |-> <<>>]
    /\ outMsg = [p \in Party |-> NoMsg]
    /\ pswd = [p \in Party |-> <<>>]
    /\ decLog = [p \in Party |-> <<>>]
    /\ base = [p \in Party |-> [enc |-> 0, dec |-> 0]]
    /\ mctx = [p \in Party |-> NoMctx]
    /\ got = [p \in Party |-> {}]
    /\ desync = [p \in Party |-> FALSE]
    /\ rcvd = [p \in Party |-> 0]
    /\ last = NoCall

New(p, pw, x) ==
    /\ builder[p].st = "none"
    /\ mctx[p].st = "none"
    /\ LET r == Builder_new(pw, p, x)
       IN  /\ builder' = IF r.ok THEN [builder EXCEPT ![p] = r.builder] ELSE builder
           /\ pswd' = IF r.ok THEN [pswd EXCEPT ![p] = pw] ELSE pswd
           /\ last' = Call("new", p, pw, IF r.ok THEN "Ok" ELSE r.err, <<>>, NoCipher,
                           p, 0, "intact")
    /\ UNCHANGED <<ctx, mctx, sent, outMsg, decLog, base, got, desync, rcvd>>

\* msg(): the caller copies the outbound message and sends it to the peer.
Msg(p) ==
    /\ builder[p].st = "created"
    /\ outMsg' = [outMsg EXCEPT ![p] = builder[p].our_msg]
    /\ last' = Call("msg", p, <<>>, "Ok", builder[p].our_msg, NoCipher, p, 0, "intact")
    /\ UNCHANGED <<builder, ctx, mctx, sent, pswd, decLog, base, got, desync, rcvd>>

\* The peer messages a transport may hand to init_cipher: the peer's message,
\* that message cut short, the party's own message reflected, or nothing.
PeerMsgs(p) ==
    {EmptyMsg}
      \cup (IF outMsg[Peer(p)] # NoMsg
            THEN {outMsg[Peer(p)], ShortMsg(outMsg[Peer(p)])} ELSE {})
      \cup (IF outMsg[p] # NoMsg THEN {outMsg[p]} ELSE {})

\* init_cipher that borrows the builder instead of consuming it
InitCipher_KeepsBuilder(p, their_msg) ==
    /\ builder[p].st = "created"
    /\ LET r == Builder_init_cipher(builder[p], their_msg)
       IN  /\ ctx' = IF r.ok THEN [ctx EXCEPT ![p] = r.ctx] ELSE ctx
           /\ last' = Call("init_cipher", p, their_msg, IF r.ok THEN "Ok" ELSE r.err, <<>>,
                           NoCipher, p, 0, "intact")
    /\ UNCHANGED <<builder, mctx, sent, outMsg, pswd, decLog, base, got, desync, rcvd>>

InitCipher(p, their_msg) ==
    /\ builder[p].st = "created"
    /\ LET r == Builder_init_cipher(builder[p], their_msg)
       IN  /\ builder' = [builder EXCEPT ![p] = ConsumedBuilder]
           /\ ctx' = IF r.ok THEN [ctx EXCEPT ![p] = r.ctx] ELSE ctx
           /\ last' = Call("init_cipher", p, their_msg, IF r.ok THEN "Ok" ELSE r.err, <<>>,
                           NoCipher, p, 0, "intact")
    /\ UNCHANGED <<mctx, sent, outMsg, pswd, decLog, base, got, desync, rcvd>>

\* The transport hands p an unchanged ciphertext of its peer that comes after
\* the one p's cipher c is waiting for.
Ahead(p, c, src, idx) ==
    /\ src = Peer(p)
    /\ idx > (c.dec_sequence - base[p].dec) + 1

\* encrypt whose counter is one counter for all contexts
EncryptUpTo_SharedCounter(p, data, n) ==
    /\ ctx[p].st = "ready"
    /\ Len(sent[p]) + Len(sent[Peer(p)]) < n
    /\ \E o \in Cipher_encrypt(ctx[p].cipher, data) :
          /\ ctx' = [q \in Party |->
                       IF ctx[q].st = "ready"
                       THEN [ctx[q] EXCEPT !.cipher.enc_sequence = o.cipher.enc_sequence]
                       ELSE ctx[q]]
          /\ sent' = IF o.res = "Ok"
                     THEN [sent EXCEPT ![p] = Append(@, [pt |-> data, ct |-> o.out])]
                     ELSE sent
          /\ last' = Call("encrypt", p, data, o.res, o.out, ctx[p].cipher,
                          p, Len(sent'[p]), "intact")
    /\ UNCHANGED <<builder, mctx, outMsg, pswd, decLog, base, got, desync, rcvd>>

\* encrypt on a ready context, in a session of at most n encrypted messages
EncryptUpTo(p, data, n) ==
    /\ ctx[p].st = "ready"
    /\ Len(sent[p]) + Len(sent[Peer(p)]) < n
    /\ \E o \in Cipher_encrypt(ctx[p].cipher, data) :
          /\ ctx' = [ctx EXCEPT ![p].cipher = o.cipher]
          /\ sent' = IF o.res = "Ok"
                     THEN [sent EXCEPT ![p] = Append(@, [pt |-> data, ct |-> o.out])]
                     ELSE sent
          /\ last' = Call("encrypt", p, data, o.res, o.out, ctx[p].cipher,
                          p, Len(sent'[p]), "intact")
    /\ UNCHANGED <<builder, mctx, outMsg, pswd, decLog, base, got, desync, rcvd>>

Encrypt(p, data) == EncryptUpTo(p, data, MaxSeq)

Decrypt(p, src, idx, kind, i, d) ==
    /\ ctx[p].st = "ready"
    /\ idx \in 1..Len(sent[src])
    /\ i \in 1..Len(sent[src][idx].ct.bytes)
    /\ LET data == Tamper(sent[src][idx].ct, kind, i, d)
       IN  \E o \in Cipher_decrypt(ctx[p].cipher, data) :
              /\ ctx' = [ctx EXCEPT ![p].cipher = o.cipher]
              /\ decLog' = IF o.res = "Ok"
                           THEN [decLog EXCEPT ![p] = Append(@, o.nonce)]
                           ELSE decLog
              /\ last' = Call("decrypt", p, <<>>, o.res, o.out, ctx[p].cipher, src, idx, kind)
    /\ UNCHANGED <<builder, mctx, sent, outMsg, pswd, base, got, desync, rcvd>>

\* decrypt of an unchanged ciphertext of the session, with a record of which
\* ciphertexts of the peer the party was handed ahead of its position (desync)
\* and which it decrypted (got)
Deliver(p, src, idx) ==
    /\ ctx[p].st = "ready"
    /\ idx \in 1..Len(sent[src])
    /\ \E o \in Cipher_decrypt(ctx[p].cipher, sent[src][idx].ct) :
          /\ ctx' = [ctx EXCEPT ![p].cipher = o.cipher]
          /\ decLog' = IF o.res = "Ok"
                       THEN [decLog EXCEPT ![p] = Append(@, o.nonce)]
                       ELSE decLog
          /\ got' = IF o.res = "Ok" /\ src = Peer(p)
                    THEN [got EXCEPT ![p] = @ \cup {idx}] ELSE got
          /\ desync' = IF Ahead(p, ctx[p].cipher, src, idx)
                       THEN [desync EXCEPT ![p] = TRUE] ELSE desync
          /\ last' = Call("decrypt", p, <<>>, o.res, o.out, ctx[p].cipher, src, idx, "intact")
    /\ UNCHANGED <<builder, mctx, sent, outMsg, pswd, base, rcvd>>

(***************************************************************************)
(* Calls on the single-object design.  A party is of one design: the one   *)
(* whose constructor it called.                                            *)
(***************************************************************************)
MNew(p, pw, x) ==
    /\ builder[p].st = "none"
    /\ mctx[p].st = "none"
    /\ LET r == Mctx_new(pw, p, x)
       IN  /\ mctx' = IF r.ok THEN [mctx EXCEPT ![p] = r.ctx] ELSE mctx
           /\ pswd' = IF r.ok THEN [pswd EXCEPT ![p] = pw] ELSE pswd
           /\ last' = Call("mut.new", p, pw, IF r.ok THEN "Ok" ELSE r.err, <<>>, mctx[p],
                           p, 0, "intact")
    /\ UNCHANGED <<builder, ctx, sent, outMsg, decLog, base, got, desync, rcvd>>

\* msg() that moves the message out of the context
MMsg_TakesMsg(p) ==
    /\ mctx[p].st = "live"
    /\ outMsg' = [outMsg EXCEPT ![p] = mctx[p].our_msg]
    /\ mctx' = [mctx EXCEPT ![p].our_msg = EmptyMsg]
    /\ last' = Call("mut.msg", p, <<>>, "Ok", mctx[p].our_msg, mctx[p], p, 0, "intact")
    /\ UNCHANGED <<builder, ctx, sent, pswd, decLog, base, got, desync, rcvd>>

MMsg(p) ==
    /\ mctx[p].st = "live"
    /\ outMsg' = [outMsg EXCEPT ![p] = mctx[p].our_msg]
    /\ last' = Call("mut.msg", p, <<>>, "Ok", mctx[p].our_msg, mctx[p], p, 0, "intact")
    /\ UNCHANGED <<builder, ctx, mctx, sent, pswd, decLog, base, got, desync, rcvd>>

MInitCipher(p, their_msg) ==
    /\ mctx[p].st = "live"
    /\ LET r == Mctx_init_cipher(mctx[p], their_msg)
       IN  /\ mctx' = [mctx EXCEPT ![p] = r.ctx]
           /\ last' = Call("mut.init_cipher", p, their_msg, r.res, <<>>, mctx[p],
                           p, 0, "intact")
    /\ UNCHANGED <<builder, ctx, sent, outMsg, pswd, decLog, base, got, desync, rcvd>>

MEncrypt(p, data) ==
    /\ mctx[p].st = "live"
    /\ Len(sent[p]) + Len(sent[Peer(p)]) < MaxSeq
    /\ \E o \in Mctx_encrypt(mctx[p], data) :
          /\ mctx' = [mctx EXCEPT ![p] = o.ctx]
          /\ sent' = IF o.res = "Ok"
                     THEN [sent EXCEPT ![p] = Append(@, [pt |-> data, ct |-> o.out])]
                     ELSE sent
          /\ last' = Call("mut.encrypt", p, data, o.res, o.out, mctx[p],
                          p, Len(sent'[p]), "intact")
    /\ UNCHANGED <<builder, ctx, outMsg, pswd, decLog, base, got, desync, rcvd>>

MDecrypt(p, src, idx) ==
    /\ mctx[p].st = "live"
    /\ idx \in 1..Len(sent[src])
    /\ \E o \in Mctx_decrypt(mctx[p], sent[src][idx].ct) :
          /\ mctx' = [mctx EXCEPT ![p] = o.ctx]
          /\ decLog' = IF o.res = "Ok"
                       THEN [decLog EXCEPT ![p] = Append(@, o.nonce)]
                       ELSE decLog
          /\ last' = Call("mut.decrypt", p, <<>>, o.res, o.out, mctx[p], src, idx, "intact")
    /\ UNCHANGED <<builder, ctx, sent, outMsg, pswd, base, got, desync, rcvd>>

\* A reliable FIFO channel hands p the next ciphertext of its peer: each one
\* once, in the order of the peer's encrypts.
Recv(p) ==
    /\ ctx[p].st = "ready"
    /\ rcvd[p] < Len(sent[Peer(p)])
    /\ \E o \in Cipher_decrypt(ctx[p].cipher, sent[Peer(p)][rcvd[p] + 1].ct) :
          /\ ctx' = [ctx EXCEPT ![p].cipher = o.cipher]
          /\ decLog' = IF o.res = "Ok"
                       THEN [decLog EXCEPT ![p] = Append(@, o.nonce)]
                       ELSE decLog
          /\ rcvd' = [rcvd EXCEPT ![p] = @ + 1]
          /\ last' = Call("decrypt", p, <<>>, o.res, o.out, ctx[p].cipher,
                          Peer(p), rcvd[p] + 1, "intact")
    /\ UNCHANGED <<builder, mctx, sent, outMsg, pswd, base, got, desync>>

\* Key material handed to Aes128GcmCipher::new directly: none, one byte, and
\* what an exchange yields.
KeyMaterials ==
    {[len |-> 0], [len |-> 1],
     Spake2Finish(Builder_new(PwA, "client", 5).builder.state,
                  Builder_new(PwA, "server", 5).builder.our_msg).km}

\* a caller constructs a cipher of its own; out is what new returned
CipherNew(key_material) ==
    /\ LET r == Aes128GcmCipher_new(key_material)
       IN  last' = Call("cipher_new", "client", key_material, IF r.ok THEN "Ok" ELSE r.err,
                        r, NoCipher, "client", 0, "intact")
    /\ UNCHANGED <<builder, ctx, mctx, sent, outMsg, pswd, decLog, base, got, desync, rcvd>>

Next ==
    \/ \E p \in Party, x \in Scalars : \E pw \in Passwords(p) : New(p, pw, x)
    \/ \E p \in Party : Msg(p)
    \/ \E p \in Party : \E m \in PeerMsgs(p) : InitCipher(p, m)
    \/ \E p \in Party, data \in Msgs : Encrypt(p, data)
    \/ \E p \in Party, src \in Party, idx \in 1..MaxSeq :
          Decrypt(p, src, idx, "intact", 1, 1)
    \/ \E p \in Party, idx \in 1..MaxSeq, i \in 1..MaxCtLen, d \in FlipMasks :
          Decrypt(p, Peer(p), idx, "flip", i, d)
    \/ \E p \in Party, idx \in 1..MaxSeq, d \in AppendBytes :
          Decrypt(p, Peer(p), idx, "append", 1, d)
    \/ \E p \in Party, idx \in 1..MaxSeq, i \in 1..MaxCtLen :
          Decrypt(p, Peer(p), idx, "remove", i, 1)

Spec == Init /\ [][Next]_vars

(***************************************************************************)
(* Both designs over an honest transport for ciphertexts: each party is    *)
(* built by either constructor, and ciphers are also constructed directly. *)
(***************************************************************************)
NextDesigns ==
    \/ \E p \in Party, x \in Scalars : \E pw \in Passwords(p) : New(p, pw, x)
    \/ \E p \in Party : Msg(p)
    \/ \E p \in Party : \E m \in PeerMsgs(p) : InitCipher(p, m)
    \/ \E p \in Party, data \in Msgs : Encrypt(p, data)
    \/ \E p \in Party, src \in Party, idx \in 1..MaxSeq :
          Decrypt(p, src, idx, "intact", 1, 1)
    \/ \E p \in Party, x \in Scalars : \E pw \in Passwords(p) : MNew(p, pw, x)
    \/ \E p \in Party : MMsg(p)
    \/ \E p \in Party : \E m \in PeerMsgs(p) : MInitCipher(p, m)
    \/ \E p \in Party, data \in Msgs : MEncrypt(p, data)
    \/ \E p \in Party, src \in Party, idx \in 1..MaxSeq : MDecrypt(p, src, idx)
    \/ \E km \in KeyMaterials : CipherNew(km)

SpecDesigns == Init /\ [][NextDesigns]_vars

(***************************************************************************)
(* A session that is already under way: both parties paired with the same  *)
(* password, each direction having carried n messages, for n around a byte *)
(* boundary of the counter and around its maximum.                         *)
(***************************************************************************)
AgedSeqs == {254, 255, SeqMax - 1, SeqMax}

PairedCtx(p, pw, x) ==
    Builder_init_cipher(Builder_new(pw, p, x).builder,
                        Builder_new(pw, Peer(p), x).builder.our_msg).ctx

InitAged ==
    /\ builder = [p \in Party |-> ConsumedBuilder]
    /\ outMsg = [p \in Party |-> Builder_new(PwA, p, 5).builder.our_msg]
    /\ pswd = [p \in Party |-> PwA]
    /\ sent = [p \in Party |-> <<>>]
    /\ decLog = [p \in Party |-> <<>>]
    /\ mctx = [p \in Party |-> NoMctx]
    /\ got = [p \in Party |-> {}]
    /\ desync = [p \in Party |-> FALSE]
    /\ rcvd = [p \in Party |-> 0]
    /\ \E n \in [Party -> AgedSeqs] :
          /\ base = [p \in Party |-> [enc |-> n[p], dec |-> n[Peer(p)]]]
          /\ ctx = [p \in Party |->
                      [PairedCtx(p, PwA, 5) EXCEPT !.cipher.enc_sequence = n[p],
                                                   !.cipher.dec_sequence = n[Peer(p)]]]
    /\ last = NoCall

NextAged ==
    \/ \E p \in Party, data \in Msgs : Encrypt(p, data)
    \/ \E p \in Party, src \in Party, idx \in 1..MaxSeq : Decrypt(p, src, idx, "intact", 1, 1)

SpecAged == InitAged /\ [][NextAged]_vars

(***************************************************************************)
(* A session paired with one password, one message longer than a session   *)
(* of Spec, over a transport that may hand a party any ciphertext of the   *)
(* session unchanged, the party's own included.                            *)
(***************************************************************************)
InitPaired ==
    /\ builder = [p \in Party |-> ConsumedBuilder]
    /\ outMsg = [p \in Party |-> Builder_new(PwA, p, 5).builder.our_msg]
    /\ pswd = [p \in Party |-> PwA]
    /\ sent = [p \in Party |-> <<>>]
    /\ decLog = [p \in Party |-> <<>>]
    /\ mctx = [p \in Party |-> NoMctx]
    /\ got = [p \in Party |-> {}]
    /\ desync = [p \in Party |-> FALSE]
    /\ rcvd = [p \in Party |-> 0]
    /\ base = [p \in Party |-> [enc |-> 0, dec |-> 0]]
    /\ ctx = [p \in Party |-> PairedCtx(p, PwA, 5)]
    /\ last = NoCall

NextPaired ==
    \/ \E p \in Party, data \in Msgs : EncryptUpTo(p, data, MaxSeq + 1)
    \/ \E p \in Party, src \in Party, idx \in 1..(MaxSeq + 1) : Deliver(p, src, idx)

SpecPaired == InitPaired /\ [][NextPaired]_vars

(***************************************************************************)
(* The paired session over a reliable FIFO channel in each direction:      *)
(* encrypts and receipts of the two parties interleave freely.             *)
(***************************************************************************)
NextFifo ==
    \/ \E p \in Party, data \in Msgs : EncryptUpTo(p, data, MaxSeq + 1)
    \/ \E p \in Party : Recv(p)

SpecFifo == InitPaired /\ [][NextFifo]_vars

(***************************************************************************)
(* The paired session over a transport that hands a party only unchanged   *)
(* ciphertexts of its peer, in any order and any number of times.          *)
(***************************************************************************)
NextPeerOnly ==
    \/ \E p \in Party, data \in Msgs : EncryptUpTo(p, data, MaxSeq + 1)
    \/ \E p \in Party, idx \in 1..(MaxSeq + 1) : Deliver(p, Peer(p), idx)

SpecPeerOnly == InitPaired /\ [][NextPeerOnly]_vars

(***************************************************************************)
(* The two designs side by side: each party holds an object of the builder *)
(* design and one of the single-object design, and every call the builder  *)
(* design admits is made on both with the same arguments.  last records    *)
(* what the builder design returned in res and out, and what the           *)
(* single-object design returned in pre.                                   *)
(***************************************************************************)
Returned(res, out) == [res |-> res, out |-> out]

BothNew(p, pw, x) ==
    /\ builder[p].st = "none"
    /\ mctx[p].st = "none"
    /\ LET r == Builder_new(pw, p, x)
           m == Mctx_new(pw, p, x)
       IN  /\ builder' = IF r.ok THEN [builder EXCEPT ![p] = r.builder] ELSE builder
           /\ mctx' = IF m.ok THEN [mctx EXCEPT ![p] = m.ctx] ELSE mctx
           /\ pswd' = IF r.ok THEN [pswd EXCEPT ![p] = pw] ELSE pswd
           /\ last' = Call("both.new", p, pw, IF r.ok THEN "Ok" ELSE r.err, <<>>,
                           Returned(IF m.ok THEN "Ok" ELSE m.err, <<>>), p, 0, "intact")
    /\ UNCHANGED <<ctx, sent, outMsg, decLog, base, got, desync, rcvd>>

BothMsg(p) ==
    /\ builder[p].st = "created"
    /\ outMsg' = [outMsg EXCEPT ![p] = builder[p].our_msg]
    /\ last' = Call("both.msg", p, <<>>, "Ok", builder[p].our_msg,
                    Returned("Ok", mctx[p].our_msg), p, 0, "intact")
    /\ UNCHANGED <<builder, ctx, mctx, sent, pswd, decLog, base, got, desync, rcvd>>

BothInitCipher(p, their_msg) ==
    /\ builder[p].st = "created"
    /\ LET r == Builder_init_cipher(builder[p], their_msg)
           m == Mctx_init_cipher(mctx[p], their_msg)
       IN  /\ builder' = [builder EXCEPT ![p] = ConsumedBuilder]
           /\ ctx' = IF r.ok THEN [ctx EXCEPT ![p] = r.ctx] ELSE ctx
           /\ mctx' = [mctx EXCEPT ![p] = m.ctx]
           /\ last' = Call("both.init_cipher", p, their_msg,
                           IF r.ok THEN "Ok" ELSE r.err, <<>>,
                           Returned(m.res, <<>>), p, 0, "intact")
    /\ UNCHANGED <<sent, outMsg, pswd, decLog, base, got, desync, rcvd>>

BothEncrypt(p, data) ==
    /\ ctx[p].st = "ready"
    /\ Len(sent[p]) + Len(sent[Peer(p)]) < MaxSeq
    /\ \E o \in Cipher_encrypt(ctx[p].cipher, data) :
       \E m \in Mctx_encrypt(mctx[p], data) :
          /\ ctx' = [ctx EXCEPT ![p].cipher = o.cipher]
          /\ mctx' = [mctx EXCEPT ![p] = m.ctx]
          /\ sent' = IF o.res = "Ok"
                     THEN [sent EXCEPT ![p] = Append(@, [pt |-> data, ct |-> o.out])]
                     ELSE sent
          /\ last' = Call("both.encrypt", p, data, o.res, o.out,
                          Returned(m.res, m.out), p, Len(sent'[p]), "intact")
    /\ UNCHANGED <<builder, outMsg, pswd, decLog, base, got, desync, rcvd>>

BothDecrypt(p, src, idx) ==
    /\ ctx[p].st = "ready"
    /\ idx \in 1..Len(sent[src])
    /\ \E o \in Cipher_decrypt(ctx[p].cipher, sent[src][idx].ct) :
       \E m \in Mctx_decrypt(mctx[p], sent[src][idx].ct) :
          /\ ctx' = [ctx EXCEPT ![p].cipher = o.cipher]
          /\ mctx' = [mctx EXCEPT ![p] = m.ctx]
          /\ decLog' = IF o.res = "Ok"
                       THEN [decLog EXCEPT ![p] = Append(@, o.nonce)]
                       ELSE decLog
          /\ last' = Call("both.decrypt", p, <<>>, o.res, o.out,
                          Returned(m.res, m.out), src, idx, "intact")
    /\ UNCHANGED <<builder, sent, outMsg, pswd, base, got, desync, rcvd>>

NextBoth ==
    \/ \E p \in Party, x \in Scalars : \E pw \in Passwords(p) : BothNew(p, pw, x)
    \/ \E p \in Party : BothMsg(p)
    \/ \E p \in Party : \E m \in PeerMsgs(p) : BothInitCipher(p, m)
    \/ \E p \in Party, data \in Msgs : BothEncrypt(p, data)
    \/ \E p \in Party, src \in Party, idx \in 1..MaxSeq : BothDecrypt(p, src, idx)

SpecBoth == Init /\ [][NextBoth]_vars

(***************************************************************************)
(* Properties                                                              *)
(***************************************************************************)
SamePassword == pswd["client"] = pswd["server"]

\* The transport handed party p its peer's ciphertext number idx, unchanged.
DeliveredFromPeer == last.op = "decrypt" /\ last.kind = "intact" /\ last.src = Peer(last.p)

\* ... and it is the one the receiver's position asks for.
DeliveredInOrder == DeliveredFromPeer /\ last.idx = last.pre.dec_sequence + 1

RECURSIVE ByteOf(_, _)
\* byte j of the number n, byte 0 being the least significant
ByteOf(n, j) == IF j = 0 THEN n % 256 ELSE ByteOf(n \div 256, j - 1)

\* C1: with the same password on both sides, a party's decrypt of the
\* ciphertext its peer's encrypt produced for the receiver's position returns
\* the plaintext that was encrypted, in either direction and at every
\* position of the session, the empty plaintext included.
C1_RoundTrip ==
    (DeliveredInOrder /\ SamePassword)
        => /\ last.res = "Ok"
           /\ last.out = sent[last.src][last.idx].pt

\* both directions have carried a message; the second was the empty one
C1_Witness ==
    /\ DeliveredInOrder /\ SamePassword
    /\ last.p = "client" /\ last.res = "Ok" /\ last.out = <<>>
    /\ Len(decLog["server"]) = 1

\* C2: with passwords that differ, the decrypt of a ciphertext the peer's
\* encrypt produced returns DecryptionFailed and no plaintext.
C2_WrongPasswordRejected ==
    (DeliveredFromPeer /\ ~SamePassword)
        => /\ last.res = "DecryptionFailed"
           /\ last.out = <<>>

C2_Witness ==
    /\ DeliveredInOrder /\ ~SamePassword
    /\ last.res = "DecryptionFailed"
    /\ sent[last.src][last.idx].pt = <<42, 255>>

\* C3: no two encrypt calls of a session, by either party, use the same
\* (key, nonce) pair.
C3_KeyNonceUsedOnce ==
    \A p, q \in Party : \A i \in DOMAIN sent[p], j \in DOMAIN sent[q] :
        (p # q \/ i # j)
            => <<sent[p][i].ct.key, sent[p][i].ct.nonce>>
                  # <<sent[q][j].ct.key, sent[q][j].ct.nonce>>

\* C4: within one cipher, no two successful encrypt calls use the same nonce
\* and no two successful decrypt calls use the same nonce.
C4_NoNonceReuseInCipher ==
    \A p \in Party :
        /\ \A i, j \in DOMAIN sent[p] :
              i # j => sent[p][i].ct.nonce # sent[p][j].ct.nonce
        /\ \A i, j \in DOMAIN decLog[p] :
              i # j => decLog[p][i] # decLog[p][j]

\* two encrypts of one cipher, both decrypted by the peer, with a failed call between
C4_Witness ==
    \E p \in Party :
        /\ Len(sent[p]) = 2 /\ Len(decLog[Peer(p)]) = 2
        /\ last.res = "DecryptionFailed"

\* C5: a decrypt that fails leaves dec_sequence as it was, and the peer's
\* ciphertext for that position still decrypts to its plaintext afterwards.
C5_FailedDecryptKeepsPosition ==
    (last.op = "decrypt" /\ last.res = "DecryptionFailed")
        => LET c    == ctx[last.p].cipher
               from == sent[Peer(last.p)]
           IN  /\ c.dec_sequence = last.pre.dec_sequence
               /\ \A i \in DOMAIN from :
                     (SamePassword /\ i = last.pre.dec_sequence + 1)
                        => \A o \in Cipher_decrypt(c, from[i].ct) :
                              o.res = "Ok" /\ o.out = from[i].pt

\* a tampered copy of the second ciphertext failed where the second is due
C5_Witness ==
    /\ last.op = "decrypt" /\ last.res = "DecryptionFailed"
    /\ last.kind = "append" /\ SamePassword
    /\ last.pre.dec_sequence = 1
    /\ Len(sent[Peer(last.p)]) = 2

\* C6: a ciphertext with one byte changed, one byte appended or one byte
\* removed is rejected with DecryptionFailed and yields no plaintext, at any
\* position of the receiver.
C6_TamperedRejected ==
    (last.op = "decrypt" /\ last.kind \in {"flip", "append", "remove"})
        => /\ last.res = "DecryptionFailed"
           /\ last.out = <<>>

\* the ciphertext due at the receiver's position, with a byte changed
C6_Witness ==
    /\ last.op = "decrypt" /\ last.kind = "flip"
    /\ SamePassword /\ last.src = Peer(last.p)
    /\ last.idx = last.pre.dec_sequence + 1
    /\ last.res = "DecryptionFailed"

\* C7: enc_sequence is the number of successful encrypt calls and
\* dec_sequence the number of successful decrypt calls of the cipher.
C7_CountersCountSuccesses ==
    \A p \in Party :
        ctx[p].st = "ready"
            => /\ ctx[p].cipher.enc_sequence = base[p].enc + Len(sent[p])
               /\ ctx[p].cipher.dec_sequence = base[p].dec + Len(decLog[p])

\* a cipher that has encrypted once and decrypted once, then failed a decrypt
C7_Witness ==
    /\ last.op = "decrypt" /\ last.res = "DecryptionFailed"
    /\ ctx[last.p].cipher.enc_sequence = 1
    /\ ctx[last.p].cipher.dec_sequence = 1

\* C8: a successful encrypt or decrypt made when its counter holds the
\* largest value does not leave the counter at a value it has held before.
C8_NoSilentWrap ==
    /\ (last.op = "encrypt" /\ last.res = "Ok" /\ last.pre.enc_sequence = SeqMax)
          => ctx[last.p].cipher.enc_sequence \notin 0..SeqMax
    /\ (last.op = "decrypt" /\ last.res = "Ok" /\ last.pre.dec_sequence = SeqMax)
          => ctx[last.p].cipher.dec_sequence \notin 0..SeqMax

\* C9: encrypt leaves dec_sequence and the key as they were, decrypt leaves
\* enc_sequence and the key as they were.
C9_CountersIndependent ==
    /\ last.op = "encrypt"
          => /\ ctx[last.p].cipher.dec_sequence = last.pre.dec_sequence
             /\ ctx[last.p].cipher.key = last.pre.key
    /\ last.op = "decrypt"
          => /\ ctx[last.p].cipher.enc_sequence = last.pre.enc_sequence
             /\ ctx[last.p].cipher.key = last.pre.key

\* an encrypt by a cipher that had decrypted before
C9_Witness ==
    /\ last.op = "encrypt" /\ last.res = "Ok"
    /\ last.pre.dec_sequence = 1
    /\ ctx[last.p].cipher.enc_sequence = 1

\* C10: the encryption made after N successful ones uses the 12-byte nonce
\* whose first 8 bytes are N, least significant byte first, and whose last 4
\* bytes are zero, for every N the counter can hold.
C10_NonceIsLittleEndianCount ==
    \A p \in Party : \A i \in DOMAIN sent[p] :
        LET N     == base[p].enc + i - 1
            nonce == sent[p][i].ct.nonce
        IN  N <= SeqMax
              => /\ Len(nonce) = 12
                 /\ \A j \in 0..7 : nonce[j + 1] = ByteOf(N, j)
                 /\ \A j \in 8..11 : nonce[j + 1] = 0

\* the 257th encryption: its count carries into the second byte
C10_Witness ==
    \E p \in Party :
        /\ base[p].enc = 255
        /\ Len(sent[p]) = 2
        /\ sent[p][2].ct.nonce[2] = 1

\* The sender encrypted message k for p and p has not decrypted it.
Dropped(p, k) == k \in 1..Len(sent[Peer(p)]) /\ k \notin got[p]

\* C11: once a message of the sender has been dropped, the receiver's decrypt
\* of every later ciphertext of that sender returns DecryptionFailed.
C11_DroppedMessageDesynchronizes ==
    (DeliveredFromPeer /\ \E k \in 1..MaxSeq : k < last.idx /\ Dropped(last.p, k))
        => last.res = "DecryptionFailed"

\* The receiver has been handed a later ciphertext of its peer before an
\* earlier one, and is now handed a ciphertext of that peer.
AfterOutOfOrder == DeliveredFromPeer /\ desync[last.p]

\* C12 as stated: after an out-of-order delivery every decrypt on the
\* receiver returns DecryptionFailed.
C12_DesyncIsPermanent ==
    (last.op = "decrypt" /\ desync[last.p]) => last.res = "DecryptionFailed"

\* C12: the later ciphertext handed over first is rejected and the receiver's
\* position stays where it was; from then on a ciphertext of the sender
\* decrypts exactly when it is the one numbered one past the receiver's
\* position (so the earlier ciphertext, handed over afterwards, is accepted),
\* and every other one returns DecryptionFailed and leaves the cipher as it was.
C12_RejectedUntilPositionMatches ==
    AfterOutOfOrder
        => /\ last.res = "Ok" <=> (SamePassword /\ last.idx = last.pre.dec_sequence + 1)
           /\ last.res # "Ok" => /\ last.res = "DecryptionFailed" /\ last.out = <<>>
                                 /\ ctx[last.p].cipher = last.pre

\* the second ciphertext was handed over first, then the first one decrypted
C12_Witness ==
    /\ AfterOutOfOrder
    /\ last.idx = 1 /\ last.res = "Ok" /\ 2 \notin got[last.p]
    /\ Len(sent[last.src]) = 2

\* the last call was op, on either design
IsOp(op) == last.op = op \/ last.op = "mut." \o op

\* C13: either constructor, called with an empty password by either role,
\* returns PasswordEmpty and leaves the party without builder, context,
\* outbound message or cipher.
C13_EmptyPasswordRejected ==
    (IsOp("new") /\ last.arg = <<>>)
        => /\ last.res = "PasswordEmpty"
           /\ builder[last.p] = NoBuilder /\ ctx[last.p] = NoCtx
           /\ mctx[last.p] = NoMctx /\ outMsg[last.p] = NoMsg

\* the server's single-object constructor refused the empty password after
\* the client's builder had been made
C13_Witness ==
    /\ last.op = "mut.new" /\ last.p = "server" /\ last.arg = <<>>
    /\ last.res = "PasswordEmpty"
    /\ builder["client"].st = "created"

\* C14: Aes128GcmCipher::new with empty key material returns
\* KeyMaterialEmpty without invoking the key derivation and without making a
\* cipher; with any other key material it returns a cipher under the derived
\* key whose enc_sequence and dec_sequence are 0, also when init_cipher is
\* the caller.
C14_CipherNew ==
    /\ last.op = "cipher_new"
          => IF last.arg.len = 0
             THEN /\ last.res = "KeyMaterialEmpty"
                  /\ ~last.out.hkdf
                  /\ "cipher" \notin DOMAIN last.out
             ELSE /\ last.res = "Ok"
                  /\ last.out.cipher =
                        [key |-> HkdfExpand(last.arg, INFO, HKDF_KEY_LENGTH).okm,
                         enc_sequence |-> 0, dec_sequence |-> 0]
    /\ (IsOp("init_cipher") /\ last.res = "Ok")
          => LET c == IF last.op = "init_cipher" THEN ctx[last.p].cipher
                      ELSE mctx[last.p].cipher
             IN  c.enc_sequence = 0 /\ c.dec_sequence = 0

C14_Witness ==
    /\ last.op = "cipher_new" /\ last.arg.len = 0
    /\ last.res = "KeyMaterialEmpty"

\* the party of the last call holds a cipher
HasCipher(p) == ctx[p].st = "ready" \/ mctx[p].cipher # NoCipher

\* C15: init_cipher on a fresh exchange state with the peer's own message
\* returns Ok whatever the two passwords are, encrypt on the resulting cipher
\* returns Ok, and with passwords that differ it is the decrypt of a peer
\* ciphertext, the first one included, that returns DecryptionFailed.
C15_MismatchSurfacesAtDecrypt ==
    /\ (/\ IsOp("init_cipher") /\ outMsg[Peer(last.p)] # NoMsg
        /\ last.arg = outMsg[Peer(last.p)]
        /\ last.op = "mut.init_cipher" => last.pre.state # NoState)
          => last.res = "Ok" /\ HasCipher(last.p)
    /\ (IsOp("encrypt") /\ last.res # "CipherNotInitialized") => last.res = "Ok"
    /\ (/\ IsOp("decrypt") /\ last.src = Peer(last.p)
        /\ last.res # "CipherNotInitialized" /\ ~SamePassword)
          => last.res = "DecryptionFailed" /\ last.out = <<>>

\* both sides finished the exchange with different passwords, and the first
\* decrypt of the first peer ciphertext failed
C15_Witness ==
    /\ IsOp("decrypt") /\ last.src = Peer(last.p) /\ last.idx = 1
    /\ ~SamePassword /\ HasCipher("client") /\ HasCipher("server")
    /\ decLog[last.p] = <<>>
    /\ last.res = "DecryptionFailed"

\* C16: encrypt and decrypt on a single-object context without a cipher
\* return CipherNotInitialized and no bytes, and leave the context as it was.
C16_NotInitialized ==
    (last.op \in {"mut.encrypt", "mut.decrypt"} /\ last.pre.cipher = NoCipher)
        => /\ last.res = "CipherNotInitialized" /\ last.out = <<>>
           /\ mctx[last.p] = last.pre

\* decrypt of a peer ciphertext on a context that still holds its exchange state
C16_Witness ==
    /\ last.op = "mut.decrypt" /\ last.src = Peer(last.p)
    /\ last.pre.state # NoState /\ last.pre.cipher = NoCipher
    /\ last.res = "CipherNotInitialized"

\* C17: init_cipher on a single-object context that holds a cipher returns
\* AlreadyInitialized, whatever peer message is passed, and leaves the context
\* with the same key, enc_sequence and dec_sequence.
C17_SecondInitRejected ==
    (last.op = "mut.init_cipher" /\ last.pre.cipher # NoCipher)
        => /\ last.res = "AlreadyInitialized"
           /\ mctx[last.p] = last.pre

\* the second call passed the peer's well-formed message, after an encrypt
C17_Witness ==
    /\ last.op = "mut.init_cipher" /\ last.pre.cipher # NoCipher
    /\ last.arg = outMsg[Peer(last.p)]
    /\ last.pre.cipher.enc_sequence = 1
    /\ last.res = "AlreadyInitialized"

\* the cipher d is the cipher c, or c after one encrypt or one decrypt
SameCipherLater(c, d) ==
    \/ d = c
    \/ \E a \in AddOne(c.enc_sequence) : ~a.panic /\ d = [c EXCEPT !.enc_sequence = a.val]
    \/ \E a \in AddOne(c.dec_sequence) : ~a.panic /\ d = [c EXCEPT !.dec_sequence = a.val]

\* C18: in both designs a cipher is installed only by a step that takes a
\* present exchange state away, an exchange state that is gone stays gone,
\* and an installed cipher stays, changed only by encrypt or decrypt advancing
\* one of its counters by one.
C18_ReadyAtMostOnce ==
    [][\A p \in Party :
          /\ (ctx[p].st # "ready" /\ ctx'[p].st = "ready")
                => builder[p].st = "created" /\ builder'[p].st = "consumed"
          /\ builder[p].st = "consumed" => builder'[p].st = "consumed"
          /\ ctx[p].st = "ready"
                => ctx'[p].st = "ready" /\ SameCipherLater(ctx[p].cipher, ctx'[p].cipher)
          /\ (mctx[p].cipher = NoCipher /\ mctx'[p].cipher # NoCipher)
                => mctx[p].state # NoState /\ mctx'[p].state = NoState
          /\ (mctx[p].st = "live" /\ mctx[p].state = NoState) => mctx'[p].state = NoState
          /\ mctx[p].cipher # NoCipher
                => /\ mctx'[p].cipher # NoCipher
                   /\ SameCipherLater(mctx[p].cipher, mctx'[p].cipher)]_vars

\* a single-object context was initialised, used, and asked to initialise again,
\* next to a builder-design peer that is ready
C18_Witness ==
    /\ last.op = "mut.init_cipher" /\ last.pre.cipher # NoCipher
    /\ last.pre.cipher.enc_sequence = 1
    /\ mctx[last.p].cipher = last.pre.cipher
    /\ ctx[Peer(last.p)].st = "ready" /\ builder[Peer(last.p)].st = "consumed"

\* C19: a single-object context holds its exchange state and no cipher
\* (Created), or a cipher and no exchange state (Ready).
C19_CreatedOrReady ==
    \A p \in Party :
        mctx[p].st = "live"
            => \/ mctx[p].state # NoState /\ mctx[p].cipher = NoCipher
               \/ mctx[p].state = NoState /\ mctx[p].cipher # NoCipher

\* C20: in the builder design a context comes to exist only in a step that is
\* a successful init_cipher of the party's builder; every init_cipher, failed
\* or not, leaves the builder consumed, and a consumed builder stays consumed,
\* so no second init_cipher follows; encrypt and decrypt happen only on a
\* context that exists.
C20_CtxOnlyFromInitCipher ==
    [][\A p \in Party :
          /\ (ctx[p].st # "ready" /\ ctx'[p].st = "ready")
                => /\ last'.op = "init_cipher" /\ last'.p = p /\ last'.res = "Ok"
                   /\ builder[p].st = "created"
          /\ (last'.op = "init_cipher" /\ last'.p = p)
                => /\ builder[p].st = "created" /\ builder'[p] = ConsumedBuilder
                   /\ last'.res # "Ok" => ctx'[p] = NoCtx
          /\ builder[p].st = "consumed" => builder'[p].st = "consumed"
          /\ (last'.op \in {"encrypt", "decrypt"} /\ last'.p = p)
                => /\ ctx[p].st = "ready" /\ builder[p] = ConsumedBuilder
                   /\ ctx'[p].st = "ready"]_vars

\* one party lost its builder to a failed init_cipher and has no context; its
\* peer finished the exchange and encrypts
C20_Witness ==
    /\ last.op = "encrypt" /\ last.res = "Ok"
    /\ builder[last.p] = ConsumedBuilder /\ ctx[last.p].st = "ready"
    /\ builder[Peer(last.p)] = ConsumedBuilder /\ ctx[Peer(last.p)] = NoCtx

\* the outbound message the constructor of party p made
ConstructedMsg(p) == {Spake2Start(Side(p), pswd[p], CLIENT_NAME, SERVER_NAME, x).msg : x \in Scalars}

\* C21: a msg() call changes no builder and no context and returns the
\* message made at construction; that message is never rewritten while the
\* object lives, and what one call returned every later call returns, also
\* after init_cipher, encrypt and decrypt on the single-object context.
C21_MsgIsPure ==
    [][\A p \in Party :
          /\ (last'.op \in {"msg", "mut.msg"} /\ last'.p = p)
                => /\ builder' = builder /\ ctx' = ctx /\ mctx' = mctx
                   /\ last'.out \in ConstructedMsg(p)
                   /\ outMsg'[p] = last'.out
          /\ outMsg[p] # NoMsg => outMsg'[p] = outMsg[p]
          /\ mctx[p].st = "live" => mctx'[p].our_msg = mctx[p].our_msg
          /\ (builder[p].st = "created" /\ builder'[p].st = "created")
                => builder'[p].our_msg = builder[p].our_msg]_vars

\* msg() on a single-object context that has finished the exchange and
\* encrypted returns what the call before init_cipher returned
C21_Witness ==
    /\ last.op = "mut.msg"
    /\ last.pre.cipher # NoCipher /\ last.pre.cipher.enc_sequence = 1
    /\ last.out = outMsg[last.p] /\ last.out \in ConstructedMsg(last.p)
    /\ mctx[last.p] = last.pre

\* C22: a successfully constructed builder or context holds a non-empty
\* outbound message, and msg() returns a non-empty message, whatever the role
\* and whether or not the peer has produced anything yet.
C22_MsgAvailableAtOnce ==
    /\ \A p \in Party :
          /\ builder[p].st = "created" => builder[p].our_msg.len > 0
          /\ mctx[p].st = "live" => mctx[p].our_msg.len > 0
    /\ IsOp("msg") => last.out.len = Spake2MsgLen

\* the server's msg() right after new, the client not yet constructed
C22_Witness ==
    /\ last.op = "msg" /\ last.p = "server" /\ last.out.len = Spake2MsgLen
    /\ builder["client"] = NoBuilder /\ mctx["client"] = NoMctx
    /\ outMsg["client"] = NoMsg

\* the ciphertext the last decrypt was handed a copy of, and the length of
\* what it was handed
HandedCt == sent[last.src][last.idx].ct
HandedLen ==
    Len(HandedCt.bytes) + (CASE last.kind = "append" -> 1
                             [] last.kind = "remove" -> -1
                             [] OTHER -> 0)

\* the last decrypt refused: DecryptionFailed, no bytes, the cipher as before
Rejected ==
    /\ last.res = "DecryptionFailed" /\ last.out = <<>>
    /\ ctx[last.p].cipher = last.pre

\* C23: a decrypt handed a ciphertext made under another key, a ciphertext
\* with a byte changed, removed or appended, or an unchanged ciphertext of
\* another position returns DecryptionFailed with no bytes and leaves the
\* cipher as it was; decrypt has no other way to fail.
C23_OneRejection ==
    last.op = "decrypt"
        => /\ (\/ HandedCt.key # last.pre.key
               \/ last.kind \in {"flip", "remove", "append"}
               \/ last.idx # last.pre.dec_sequence + 1) => Rejected
           /\ last.res # "Ok" => Rejected

\* a 16-byte ciphertext cut to 15 bytes, due at the receiver's position and
\* made under the receiver's key, is refused like any other
C23_Witness ==
    /\ last.op = "decrypt" /\ last.kind = "remove" /\ HandedLen = TagLen - 1
    /\ HandedCt.key = last.pre.key /\ last.idx = last.pre.dec_sequence + 1
    /\ Rejected

\* C25: a successful encrypt returns the plaintext's length plus 16 bytes, a
\* successful decrypt returns 16 bytes fewer than it was handed, and nothing
\* shorter than 16 bytes is accepted.
C25_Lengths ==
    /\ (last.op = "encrypt" /\ last.res = "Ok")
          => Len(last.out.bytes) = Len(last.arg) + TagLen
    /\ (last.op = "decrypt" /\ last.res = "Ok")
          => Len(last.out) = HandedLen - TagLen
    /\ (last.op = "decrypt" /\ HandedLen < TagLen) => last.res = "DecryptionFailed"

\* the empty plaintext went out as 16 bytes and came back as none
C25_Witness ==
    /\ last.op = "decrypt" /\ last.res = "Ok"
    /\ HandedLen = TagLen /\ last.out = <<>>
    /\ sent[last.src][last.idx].pt = <<>>

\* C27: decrypt returns Ok exactly when it is handed an unchanged ciphertext
\* made under the receiver's key with the nonce of the receiver's
\* dec_sequence, which is the ciphertext numbered one past it; a success
\* moves dec_sequence by one.
C27_OneNonceTried ==
    last.op = "decrypt"
        => /\ last.res = "Ok"
                <=> /\ last.kind = "intact"
                    /\ HandedCt.key = last.pre.key
                    /\ HandedCt.nonce = NonceOf(last.pre.dec_sequence)
           /\ HandedCt.nonce = NonceOf(last.pre.dec_sequence)
                <=> last.idx = last.pre.dec_sequence + 1
           /\ last.res = "Ok"
                => ctx[last.p].cipher.dec_sequence = last.pre.dec_sequence + 1

\* the peer's ciphertext the receiver has just accepted is handed over again
C27_Witness ==
    /\ DeliveredFromPeer /\ SamePassword
    /\ last.pre.dec_sequence = 1 /\ last.idx = 1
    /\ Rejected

\* C30: every ciphertext a party's decrypt accepts was made by its peer's
\* encrypt.
C30_NoReflection ==
    (last.op = "decrypt" /\ last.res = "Ok") => last.src = Peer(last.p)

\* C24: two ciphers made from the same key material hold the same key; the
\* ciphertexts they make of the same plaintext at the same index are equal,
\* and no two ciphertexts made at different indices are equal, whatever the
\* plaintexts and whichever of the ciphers made them.
C24_Deterministic ==
    \A p, q \in Party :
        ctx[p].cipher.key.ikm = ctx[q].cipher.key.ikm
            => /\ ctx[p].cipher.key = ctx[q].cipher.key
               /\ \A i \in DOMAIN sent[p], j \in DOMAIN sent[q] :
                     /\ (i = j /\ sent[p][i].pt = sent[q][j].pt)
                           => sent[p][i].ct = sent[q][j].ct
                     /\ i # j => sent[p][i].ct # sent[q][j].ct

\* both ciphers encrypted the same plaintext first, and one of them again
C24_Witness ==
    /\ Len(sent["client"]) = 2 /\ Len(sent["server"]) = 1
    /\ sent["client"][1].ct = sent["server"][1].ct
    /\ sent["client"][2].pt = sent["client"][1].pt
    /\ sent["client"][2].ct # sent["client"][1].ct

\* C26: a call on one party's builder, context or cipher leaves the other
\* party's builder and context, with its exchange state, key and counters,
\* as they were; a cipher constructed on its own touches neither.
C26_Isolated ==
    [][/\ \A p \in Party :
             (last'.p = p /\ last'.op # "cipher_new")
                => /\ builder'[Peer(p)] = builder[Peer(p)]
                   /\ ctx'[Peer(p)] = ctx[Peer(p)]
                   /\ mctx'[Peer(p)] = mctx[Peer(p)]
       /\ last'.op = "cipher_new"
             => builder' = builder /\ ctx' = ctx /\ mctx' = mctx]_vars

\* one party has encrypted; its peer's cipher under the same key is untouched
C26_Witness ==
    /\ last.op = "encrypt" /\ last.res = "Ok"
    /\ ctx[last.p].cipher.enc_sequence = 1
    /\ ctx[Peer(last.p)].st = "ready"
    /\ ctx[Peer(last.p)].cipher.key = ctx[last.p].cipher.key
    /\ ctx[Peer(last.p)].cipher.enc_sequence = 0
    /\ ctx[Peer(last.p)].cipher.dec_sequence = 0

\* C28: over FIFO channels every decrypt returns Ok, and the k-th ciphertext
\* a party takes off its channel yields the k-th plaintext its peer
\* encrypted, however the encrypts and receipts of both parties interleave.
C28_FifoInOrder ==
    /\ last.op = "decrypt"
          => /\ last.res = "Ok"
             /\ last.idx = rcvd[last.p]
             /\ last.out = sent[last.src][last.idx].pt
    /\ \A p \in Party :
          /\ Len(decLog[p]) = rcvd[p]
          /\ ctx[p].cipher.dec_sequence = rcvd[p]

\* a party takes its peer's second message off the channel while its own
\* message is still in flight
C28_Witness ==
    /\ last.op = "decrypt" /\ last.idx = 2 /\ last.res = "Ok"
    /\ Len(sent[last.p]) = 1 /\ rcvd[Peer(last.p)] = 0

\* C29: with only the peer's ciphertexts handed over, a party's dec_sequence
\* never exceeds its peer's enc_sequence, and equals it exactly when the
\* party has decrypted every ciphertext the peer has made.
C29_DecFollowsEnc ==
    \A p \in Party :
        /\ ctx[p].cipher.dec_sequence <= ctx[Peer(p)].cipher.enc_sequence
        /\ ctx[p].cipher.dec_sequence = ctx[Peer(p)].cipher.enc_sequence
              <=> got[p] = 1..Len(sent[Peer(p)])

\* the second ciphertext came first and was refused, then the first was
\* decrypted: the receiver is one behind the sender
C29_Witness ==
    \E p \in Party :
        /\ desync[p] /\ got[p] = {1} /\ Len(sent[Peer(p)]) = 2
        /\ ctx[p].cipher.dec_sequence = 1
        /\ ctx[Peer(p)].cipher.enc_sequence = 2

\* The party was handed, unchanged, a ciphertext of its peer that it had
\* already decrypted.
DuplicateDelivered ==
    /\ DeliveredFromPeer
    /\ last.idx \in got[last.p]
    /\ last.idx # last.pre.dec_sequence + 1

\* C31: a ciphertext of the peer that the party has already decrypted, handed
\* to it again, is refused with DecryptionFailed and the cipher stays as it
\* was; the ciphertext the peer made for the party's position still decrypts
\* to its plaintext after the refusal.
C31_DuplicateRejected ==
    DuplicateDelivered =>
        /\ Rejected
        /\ \A i \in 1..Len(sent[last.src]) :
               i = last.pre.dec_sequence + 1 =>
                  \A o \in Cipher_decrypt(ctx[last.p].cipher, sent[last.src][i].ct) :
                      /\ o.res = "Ok"
                      /\ o.out = sent[last.src][i].pt
                      /\ o.cipher.dec_sequence = i

\* the first ciphertext was decrypted, then handed over again and refused,
\* while the peer's second ciphertext is waiting
C31_Witness ==
    /\ DuplicateDelivered /\ last.idx = 1 /\ last.res = "DecryptionFailed"
    /\ got[last.p] = {1} /\ Len(sent[last.src]) >= 2
    /\ ctx[last.p].cipher.dec_sequence = 1

\* the last call was made on an object of the single-object design
OnMctx == last.op \in {"mut.msg", "mut.init_cipher", "mut.encrypt", "mut.decrypt"}

\* a context of the single-object design with neither exchange state nor
\* cipher
DeadCtx(c) == c.st = "live" /\ c.state = NoState /\ c.cipher = NoCipher

\* C32: in the single-object design an init_cipher that fails leaves the
\* context with neither exchange state nor cipher; on such a context
\* init_cipher returns AlreadyInitialized, encrypt and decrypt return
\* CipherNotInitialized, and no call changes the context, so it never gets a
\* cipher.
C32_FailedInitIsFinal ==
    /\ (last.op = "mut.init_cipher" /\ last.res \notin {"Ok", "AlreadyInitialized"})
          => DeadCtx(mctx[last.p])
    /\ (OnMctx /\ DeadCtx(last.pre)) =>
          /\ mctx[last.p] = last.pre
          /\ last.op = "mut.init_cipher" => last.res = "AlreadyInitialized"
          /\ last.op \in {"mut.encrypt", "mut.decrypt"} =>
                 last.res = "CipherNotInitialized" /\ last.out = <<>>

\* after a failed init_cipher the party calls it again with the message its
\* peer really sent
C32_Witness ==
    /\ last.op = "mut.init_cipher" /\ DeadCtx(last.pre)
    /\ outMsg[Peer(last.p)] # NoMsg /\ last.arg = outMsg[Peer(last.p)]
    /\ last.res = "AlreadyInitialized" /\ DeadCtx(mctx[last.p])

\* C33: in the single-object design, when init_cipher returns
\* AlreadyInitialized the context has a cipher: encrypt and decrypt on it do
\* not return CipherNotInitialized.
C33_AlreadyInitializedHasCipher ==
    (last.op = "mut.init_cipher" /\ last.res = "AlreadyInitialized") =>
        /\ mctx[last.p].cipher # NoCipher
        /\ \A data \in Msgs : \A o \in Mctx_encrypt(mctx[last.p], data) :
               o.res # "CipherNotInitialized"
        /\ \A src \in Party : \A i \in 1..Len(sent[src]) :
               \A o \in Mctx_decrypt(mctx[last.p], sent[src][i].ct) :
                   o.res # "CipherNotInitialized"

\* what a caller sees of one call: its result and the bytes returned
Seen(o) == [res |-> o.res, out |-> o.out]

\* the outcomes of encrypt(data) followed by decrypt(ct) on cipher c: the two
\* results and the cipher left behind
EncryptThenDecrypt(c, data, ct) ==
    UNION {{[enc |-> Seen(e), dec |-> Seen(d), cipher |-> d.cipher]
              : d \in Cipher_decrypt(e.cipher, ct)}
             : e \in Cipher_encrypt(c, data)}

\* ... and of decrypt(ct) followed by encrypt(data)
DecryptThenEncrypt(c, data, ct) ==
    UNION {{[enc |-> Seen(e), dec |-> Seen(d), cipher |-> e.cipher]
              : e \in Cipher_encrypt(d.cipher, data)}
             : d \in Cipher_decrypt(c, ct)}

\* Ciphertexts a party may hold when it calls decrypt: those of the session,
\* unchanged or with the first byte changed or removed or a byte appended,
\* and the one its own next encrypt of some plaintext produces.
HeldCiphertexts(p) ==
    LET Made(src) == {sent[src][i].ct : i \in 1..Len(sent[src])}
        all  == Made("client") \cup Made("server")
    IN  all
          \cup {Tamper(ct, "flip", 1, 1) : ct \in all}
          \cup {Tamper(ct, "remove", 1, 1) : ct \in all}
          \cup {Tamper(ct, "append", 1, 1) : ct \in all}
          \cup UNION {{e.out : e \in Cipher_encrypt(ctx[p].cipher, data)}
                        : data \in Msgs}

\* C34: on one cipher, encrypt(data) then decrypt(ct) and decrypt(ct) then
\* encrypt(data) return the same two results and leave the same key,
\* enc_sequence and dec_sequence, for every plaintext and ciphertext.
C34_EncryptDecryptCommute ==
    \A p \in Party : \A data \in Msgs : \A ct \in HeldCiphertexts(p) :
        EncryptThenDecrypt(ctx[p].cipher, data, ct)
            = DecryptThenEncrypt(ctx[p].cipher, data, ct)

\* a party has decrypted its peer's first ciphertext and then encrypted its
\* own first plaintext, and holds a ciphertext that decrypts at its position
C34_Witness ==
    /\ last.op = "encrypt" /\ last.res = "Ok"
    /\ ctx[last.p].cipher.enc_sequence = 1
    /\ ctx[last.p].cipher.dec_sequence = 1
    /\ \E ct \in HeldCiphertexts(last.p) : \E data \in Msgs :
          \E o \in EncryptThenDecrypt(ctx[last.p].cipher, data, ct) :
              o.enc.res = "Ok" /\ o.dec.res = "Ok"

\* the exchange state of party p names the client first and the server
\* second, and is of the start variant of p's role
BindsIdentities(state, p) ==
    /\ state.idA = CLIENT_NAME /\ state.idB = SERVER_NAME
    /\ state.side = (IF p = "client" THEN "A" ELSE "B")

\* C36: in both designs, the exchange state new builds for either role names
\* "adb pair client" first and "adb pair server" second; the states the two
\* roles get for one password differ in the start variant only (A for the
\* client, B for the server).
C36_SameIdentityOrder ==
    /\ \A p \in Party :
          /\ builder[p].st = "created" => BindsIdentities(builder[p].state, p)
          /\ (mctx[p].st = "live" /\ mctx[p].state # NoState)
                => BindsIdentities(mctx[p].state, p)
    /\ \A pw \in {PwA, PwB}, x \in Scalars :
          LET bc == Builder_new(pw, "client", x).builder.state
              bs == Builder_new(pw, "server", x).builder.state
              mc == Mctx_new(pw, "client", x).ctx.state
              ms == Mctx_new(pw, "server", x).ctx.state
          IN  /\ bc.side = "A" /\ bs.side = "B"
              /\ [bs EXCEPT !.side = "A"] = bc
              /\ mc = bc /\ ms = bs

\* a client of the builder design and a server of the single-object design,
\* both freshly constructed
C36_Witness ==
    /\ builder["client"].st = "created"
    /\ mctx["server"].st = "live" /\ mctx["server"].state # NoState
    /\ builder["client"].state.idA = mctx["server"].state.idA
    /\ builder["client"].state.idB = mctx["server"].state.idB
    /\ IsOp("new") /\ last.res = "Ok"

\* the last call was made on both designs
OnBoth ==
    last.op \in {"both.new", "both.msg", "both.init_cipher", "both.encrypt",
                 "both.decrypt"}

\* C35: on every sequence of calls the builder design admits (new, msg, one
\* init_cipher, then encrypt and decrypt if it succeeded), made with the same
\* arguments on both designs, each call returns the same result and the same
\* bytes in both, and the two ciphers hold the same counters.
C35_DesignsAgree ==
    /\ OnBoth => last.pre.res = last.res /\ last.pre.out = last.out
    /\ \A p \in Party :
          ctx[p].st = "ready" =>
             /\ mctx[p].cipher # NoCipher
             /\ mctx[p].cipher.enc_sequence = ctx[p].cipher.enc_sequence
             /\ mctx[p].cipher.dec_sequence = ctx[p].cipher.dec_sequence

\* a party has encrypted once and then decrypted its peer's first ciphertext,
\* on both designs
C35_Witness ==
    /\ last.op = "both.decrypt" /\ last.res = "Ok" /\ last.pre.res = "Ok"
    /\ last.src = Peer(last.p) /\ last.out = sent[last.src][last.idx].pt
    /\ ctx[last.p].cipher.enc_sequence = 1 /\ ctx[last.p].cipher.dec_sequence = 1
    /\ mctx[last.p].cipher.enc_sequence = 1 /\ mctx[last.p].cipher.dec_sequence = 1

====
